---- MODULE Spec2Model ----
(***************************************************************************)
(* AI plays TicTacToe: the magic-square win oracle, the minimax search and *)
(* the two game loops (the console main() and the notebook's               *)
(* play_interactive()).                                                    *)
(*                                                                         *)
(* A board is a function from the cell indices 0..8 to "X", "O" or "_",    *)
(* as the Python list is.  A Python list of values is a sequence.  A       *)
(* function result that may be None is a tuple, None being the empty one;  *)
(* a cell index that may be None is an integer, NoneIndex being the one    *)
(* outside 0..8.                                                           *)
(***************************************************************************)
EXTENDS Integers, Sequences, FiniteSets, TLC

VARIABLES
    mode,       \* which program runs: "main", "interactive", or a call harness
    pc,         \* where the program is waiting
    board,      \* the board list
    player,     \* the side to move
    opp,        \* the other side
    out,        \* the last message printed
    exc,        \* the uncaught exception that ended the program, "" if none
    disabled,   \* interactive: disable_all(buttons) has run
    arg,        \* the argument of a table lookup (call harness)
    ret         \* the value a called function returned (call harness)

vars == <<mode, pc, board, player, opp, out, exc, disabled, arg, ret>>

(***************************************************************************)
(* Constants of the program                                                *)
(***************************************************************************)
None == <<>>
NoneIndex == 0 - 9
KeyError == 0 - 8

magic_swapped == [i \in 0..8 |-> <<8, 3, 4, 1, 5, 9, 6, 2, 7>>[i + 1]]

magic == [i \in 0..8 |-> <<8, 3, 4, 1, 5, 9, 6, 7, 2>>[i + 1]]

magic_swapped_ ==
    (8 :> 0) @@ (3 :> 1) @@ (4 :> 2) @@ (1 :> 3) @@ (5 :> 4) @@ (9 :> 5)
    @@ (6 :> 7) @@ (7 :> 6) @@ (2 :> 8)

magic_ ==
    (8 :> 0) @@ (3 :> 1) @@ (4 :> 2) @@ (1 :> 3) @@ (5 :> 4) @@ (9 :> 5)
    @@ (6 :> 6) @@ (7 :> 7) @@ (2 :> 8)

score_dict == ("X" :> 1) @@ ("O" :> (0 - 1))

range9 == <<0, 1, 2, 3, 4, 5, 6, 7, 8>>

EmptyBoard == [i \in 0..8 |-> "_"]
Boards == [0..8 -> {"X", "O", "_"}]

(***************************************************************************)
(* avail_moves and check_player_win                                        *)
(***************************************************************************)
avail_moves(board_) == SelectSeq(range9, LAMBDA i : board_[i] = "_")

player_moves(board_, player_) == SelectSeq(range9, LAMBDA i : board_[i] = player_)

RECURSIVE map_magic(_)
map_magic(s) ==
    IF s = <<>> THEN <<>> ELSE <<magic[Head(s)]>> \o map_magic(Tail(s))

avail_magic_all(board_) == map_magic(range9)

avail_magic(board_) == map_magic(avail_moves(board_))

RECURSIVE pairs_with(_, _)
pairs_with(a, rest) ==
    IF rest = <<>> THEN <<>>
    ELSE <<<<a, Head(rest)>>>> \o pairs_with(a, Tail(rest))

RECURSIVE combinations_rev(_)
combinations_rev(s) ==
    IF Len(s) < 2 THEN <<>>
    ELSE combinations_rev(Tail(s)) \o pairs_with(Head(s), Tail(s))

\* itertools.combinations(s, 2): the pairs in lexicographic order of position
RECURSIVE combinations(_)
combinations(s) ==
    IF Len(s) < 2 THEN <<>>
    ELSE pairs_with(Head(s), Tail(s)) \o combinations(Tail(s))

surp_of_fourteen(tuple_) == 14 - (magic[tuple_[1]] + magic[tuple_[2]])

surp_of(tuple_) == 15 - (magic[tuple_[1]] + magic[tuple_[2]])

in_list(v, s) == \E k \in DOMAIN s : s[k] = v

\* the for loop of check_player_win over the pairs still to visit
RECURSIVE win_loop(_, _, _)
win_loop(tuples, avail_magic_, player_) ==
    IF tuples = <<>> THEN None
    ELSE IF in_list(surp_of(Head(tuples)), avail_magic_)
         THEN <<magic_[surp_of(Head(tuples))], score_dict[player_]>>
         ELSE win_loop(Tail(tuples), avail_magic_, player_)

check_player_win(board_, player_) ==
    win_loop(combinations(player_moves(board_, player_)), avail_magic(board_), player_)

(***************************************************************************)
(* minimax                                                                 *)
(*                                                                         *)
(* The recursion is evaluated bottom-up and memoised: minimax_table holds  *)
(* the result of minimax(board, player, opp) for every board and mover,    *)
(* filled in order of the number of empty cells, each entry computed by    *)
(* minimax_node, the body of the function, with the recursive call         *)
(* replaced by a lookup of the already filled entries.  Every call site    *)
(* passes the other mark as opp, so the key is (board, player).            *)
(***************************************************************************)
digit(m) == IF m = "_" THEN 0 ELSE IF m = "X" THEN 1 ELSE 2

board_code(board_) ==
    digit(board_[0]) + 3 * digit(board_[1]) + 9 * digit(board_[2])
    + 27 * digit(board_[3]) + 81 * digit(board_[4]) + 243 * digit(board_[5])
    + 729 * digit(board_[6]) + 2187 * digit(board_[7]) + 6561 * digit(board_[8])

memo_key(board_, player_) == 2 * board_code(board_) + (IF player_ = "X" THEN 1 ELSE 2)

NKeys == 2 * (3 ^ 9)

key_player(n) == IF n % 2 = 1 THEN "X" ELSE "O"
key_opp(n) == IF n % 2 = 1 THEN "O" ELSE "X"

key_board ==
    [n \in 1..NKeys |->
        [i \in 0..8 |-> <<"_", "X", "O">>[((((n - 1) \div 2) \div (3 ^ i)) % 3) + 1]]]
    \o <<>>

key_empties ==
    [n \in 1..NKeys |-> Cardinality({i \in 0..8 : key_board[n][i] = "_"})] \o <<>>

\* scores.sort(key=lambda x: x[1]): a stable sort by score
RECURSIVE insert_unstable(_, _)
insert_unstable(sorted, e) ==
    IF sorted = <<>> THEN <<e>>
    ELSE IF Head(sorted)[2] >= e[2] THEN <<e>> \o sorted
    ELSE <<Head(sorted)>> \o insert_unstable(Tail(sorted), e)

RECURSIVE insert(_, _)
insert(sorted, e) ==
    IF sorted = <<>> THEN <<e>>
    ELSE IF Head(sorted)[2] > e[2] THEN <<e>> \o sorted
    ELSE <<Head(sorted)>> \o insert(Tail(sorted), e)

RECURSIVE sort(_)
sort(scores) ==
    IF scores = <<>> THEN <<>>
    ELSE insert(sort(SubSeq(scores, 1, Len(scores) - 1)), scores[Len(scores)])

pick_first(sorted, player_) == sorted[1]

pick_last(sorted, player_) == sorted[Len(sorted)]

\* return scores[-1] if player == "X" else scores[0]
pick(sorted, player_) == IF player_ = "X" THEN sorted[Len(sorted)] ELSE sorted[1]

RECURSIVE scores_loop_same_side(_, _, _, _, _)
scores_loop_same_side(moves, board_, player_, opp_, deeper) ==
    IF moves = <<>> THEN <<>>
    ELSE <<<<Head(moves),
             deeper[memo_key([board_ EXCEPT ![Head(moves)] = player_], player_)][2]>>>>
         \o scores_loop_same_side(Tail(moves), board_, player_, opp_, deeper)

\* the for loop of minimax over the empty cells still to visit
RECURSIVE scores_loop(_, _, _, _, _)
scores_loop(moves, board_, player_, opp_, deeper) ==
    IF moves = <<>> THEN <<>>
    ELSE <<<<Head(moves),
             deeper[memo_key([board_ EXCEPT ![Head(moves)] = player_], opp_)][2]>>>>
         \o scores_loop(Tail(moves), board_, player_, opp_, deeper)

RECURSIVE positions(_, _)
positions(s, k) == IF s = <<>> THEN <<>> ELSE <<k>> \o positions(Tail(s), k + 1)

search_by_position(board_, player_, opp_, avail_moves_, deeper) ==
    IF avail_moves_ = <<>> THEN <<NoneIndex, 0>>
    ELSE <<positions(avail_moves_, 0)[
               CHOOSE k \in DOMAIN avail_moves_ : avail_moves_[k] =
                   pick(sort(scores_loop(avail_moves_, board_, player_, opp_, deeper)), player_)[1]],
           pick(sort(scores_loop(avail_moves_, board_, player_, opp_, deeper)), player_)[2]>>

search(board_, player_, opp_, avail_moves_, deeper) ==
    IF avail_moves_ = <<>> THEN <<NoneIndex, 0>>
    ELSE pick(sort(scores_loop(avail_moves_, board_, player_, opp_, deeper)), player_)

after_check(board_, player_, opp_, res, deeper) ==
    IF res # None THEN res
    ELSE search(board_, player_, opp_, avail_moves(board_), deeper)

minimax_node(board_, player_, opp_, deeper) ==
    after_check(board_, player_, opp_, check_player_win(board_, player_), deeper)

RECURSIVE build(_, _)
build(k, tab) ==
    IF k > 9 THEN tab
    ELSE build(k + 1,
               [n \in 1..NKeys |->
                   IF key_empties[n] = k
                   THEN minimax_node(key_board[n], key_player(n), key_opp(n), tab)
                   ELSE tab[n]] \o <<>>)

minimax_table == build(0, [n \in 1..NKeys |-> None] \o <<>>)

minimax(board_, player_, opp_) == minimax_table[memo_key(board_, player_)]

place(board_, i, m) == [board_ EXCEPT ![i] = m]

\* The same call followed through Python's list objects: what it returns,
\* the cells the caller's list holds when it returns, and whether every
\* list handed to a recursive call differed from the caller's list in just
\* the cell marked.
list_alias(board_) == [cells |-> board_, is_board |-> TRUE]

\* new_board = board.copy()
list_copy(board_) == [cells |-> board_, is_board |-> FALSE]

changed_cells(a, b) == {j \in 0..8 : a[j] # b[j]}

RECURSIVE minimax_run(_, _, _)
RECURSIVE loop_run(_, _, _, _, _, _, _)

\* scores.append((i, score)); a list that is board itself takes the writes
loop_next(moves, given, board_, player_, opp_, scores, fresh, is_board, new_board, r) ==
    loop_run(Tail(moves), given,
             IF is_board THEN r[2] ELSE board_,
             player_, opp_,
             Append(scores, <<Head(moves), r[1][2]>>),
             fresh /\ r[3] /\ changed_cells(given, new_board) = {Head(moves)})

\* _, score = minimax(new_board, opp, player)
loop_call(moves, given, board_, player_, opp_, scores, fresh, is_board, new_board) ==
    loop_next(moves, given, board_, player_, opp_, scores, fresh, is_board, new_board,
              minimax_run(new_board, opp_, player_))

\* for i in avail_moves_: new_board = board.copy(); new_board[i] = player
loop_run(moves, given, board_, player_, opp_, scores, fresh) ==
    IF moves = <<>> THEN <<pick(sort(scores), player_), board_, fresh>>
    ELSE loop_call(moves, given, board_, player_, opp_, scores, fresh,
                   list_copy(board_).is_board,
                   place(list_copy(board_).cells, Head(moves), player_))

minimax_run(board_, player_, opp_) ==
    IF check_player_win(board_, player_) # None
    THEN <<check_player_win(board_, player_), board_, TRUE>>
    ELSE IF avail_moves(board_) = <<>>
    THEN <<<<NoneIndex, 0>>, board_, TRUE>>
    ELSE loop_run(avail_moves(board_), board_, board_, player_, opp_, <<>>, TRUE)

\* check_player_win only reads board
check_player_win_run(board_, player_) == <<check_player_win(board_, player_), board_, TRUE>>

(***************************************************************************)
(* The geometry of the board and the value of a position, stated without   *)
(* the magic square: the yardstick the oracle and the search are measured  *)
(* against.                                                                *)
(***************************************************************************)
Cell(row, col) == 3 * row + col

Lines ==
    {{Cell(r, 0), Cell(r, 1), Cell(r, 2)} : r \in 0..2}
    \cup {{Cell(0, c), Cell(1, c), Cell(2, c)} : c \in 0..2}
    \cup {{Cell(0, 0), Cell(1, 1), Cell(2, 2)}, {Cell(0, 2), Cell(1, 1), Cell(2, 0)}}

Has3(board_, m) == \E l \in Lines : \A i \in l : board_[i] = m

Count(board_, m) == Cardinality({i \in 0..8 : board_[i] = m})

EmptyCells(board_) == {i \in 0..8 : board_[i] = "_"}

Other(m) == IF m = "X" THEN "O" ELSE "X"

\* the player has two marks on a line whose third cell is empty
Threat(board_, m) ==
    \E l \in Lines : \E c \in l :
        board_[c] = "_" /\ \A i \in l \ {c} : board_[i] = m

SetMax(S) == CHOOSE v \in S : \A w \in S : w <= v
SetMin(S) == CHOOSE v \in S : \A w \in S : v <= w

best_of(values, to_move) == IF to_move = "X" THEN SetMax(values) ELSE SetMin(values)

value_node(board_, to_move, deeper) ==
    IF Has3(board_, "X") THEN 1
    ELSE IF Has3(board_, "O") THEN 0 - 1
    ELSE IF EmptyCells(board_) = {} THEN 0
    ELSE best_of({deeper[memo_key([board_ EXCEPT ![i] = to_move], Other(to_move))] :
                     i \in EmptyCells(board_)}, to_move)

RECURSIVE build_value(_, _)
build_value(k, tab) ==
    IF k > 9 THEN tab
    ELSE build_value(k + 1,
               [n \in 1..NKeys |->
                   IF key_empties[n] = k
                   THEN value_node(key_board[n], key_player(n), tab)
                   ELSE tab[n]] \o <<>>)

value_table == build_value(0, [n \in 1..NKeys |-> 0] \o <<>>)

\* the game-theoretic value of the position with to_move to play
game_value(board_, to_move) == value_table[memo_key(board_, to_move)]

(***************************************************************************)
(* The game loops                                                          *)
(***************************************************************************)
Messages ==
    {"", "AI wins!", "It's a draw!", "It will be a draw after your move!",
     "It will be a draw!", "You win!!", "That spot is already taken! Try again."}

Init ==
    /\ mode \in {"main", "interactive"}
    /\ pc = "ask_first"
    /\ board = EmptyBoard
    /\ player = ""
    /\ opp = ""
    /\ out = ""
    /\ exc = ""
    /\ disabled = FALSE
    /\ arg = <<>>
    /\ ret = None


next_turn_same(player_, opp_) == <<player_, opp_>>

\* player, opp = opp, player
next_turn(player_, opp_) == <<opp_, player_>>

\* input("Do you want to play first? [Y/n] "): 'n' lets the AI start
ChooseFirst(first) ==
    /\ pc = "ask_first"
    /\ mode \in {"main", "interactive"}
    /\ player' = (IF first = "n" THEN "X" ELSE "O")
    /\ opp' = (IF first = "n" THEN "O" ELSE "X")
    /\ pc' = (IF mode = "main" THEN "loop" ELSE IF first = "n" THEN "ai_move" ELSE "idle")
    /\ UNCHANGED <<mode, board, out, exc, disabled, arg, ret>>

ai_choice_first_empty(board_) ==
    IF check_player_win(board_, "O") # None
    THEN avail_moves(board_)[1]
    ELSE minimax(board_, "X", "O")[1]

\* the cell the AI marks when it has no winning completion of its own
ai_choice(board_) ==
    IF check_player_win(board_, "O") # None
    THEN check_player_win(board_, "O")[1]
    ELSE minimax(board_, "X", "O")[1]

MainEndOfTurnNoDrawCheck(b) ==
    /\ board' = b
    /\ player' = next_turn(player, opp)[1]
    /\ opp' = next_turn(player, opp)[2]
    /\ IF Len(avail_moves(b)) = 1 /\ next_turn(player, opp)[1] = "O"
       THEN pc' = "autofill" /\ out' = out
       ELSE pc' = "loop" /\ out' = out
    /\ UNCHANGED <<mode, exc, disabled, arg, ret>>

\* main, lines 131-143: after the mark is placed
MainEndOfTurn(b) ==
    /\ board' = b
    /\ player' = next_turn(player, opp)[1]
    /\ opp' = next_turn(player, opp)[2]
    /\ IF avail_moves(b) = <<>>
       THEN pc' = "done" /\ out' = "It's a draw!"
       ELSE IF Len(avail_moves(b)) = 1 /\ next_turn(player, opp)[1] = "O"
            THEN pc' = "autofill" /\ out' = out
            ELSE pc' = "loop" /\ out' = out
    /\ UNCHANGED <<mode, exc, disabled, arg, ret>>

MainAiTurn ==
    /\ mode = "main" /\ pc = "loop" /\ player = "X"
    /\ IF check_player_win(board, "X") # None
       THEN /\ board' = place(board, check_player_win(board, "X")[1], "X")
            /\ out' = "AI wins!"
            /\ pc' = "done"
            /\ UNCHANGED <<mode, player, opp, exc, disabled, arg, ret>>
       ELSE IF ai_choice(board) = NoneIndex
            THEN /\ exc' = "TypeError"
                 /\ pc' = "crashed"
                 /\ UNCHANGED <<mode, board, player, opp, out, disabled, arg, ret>>
            ELSE MainEndOfTurn(place(board, ai_choice(board), "X"))

\* one answer to "Make moves as (x, y)-coordinates (0, 1, 2): ", two digits
MainHumanInput(x, y) ==
    /\ mode = "main" /\ pc = "loop" /\ player = "O"
    /\ IF 3 * x + y > 8
       THEN /\ exc' = "IndexError"
            /\ pc' = "crashed"
            /\ UNCHANGED <<mode, board, player, opp, out, disabled, arg, ret>>
       ELSE IF board[3 * x + y] # "_"
            THEN /\ out' = "That spot is already taken! Try again."
                 /\ UNCHANGED <<mode, pc, board, player, opp, exc, disabled, arg, ret>>
            ELSE MainEndOfTurn(place(board, 3 * x + y, "O"))

\* an answer that is not two digits: int() or the unpacking raises
MainHumanInputMalformed ==
    /\ mode = "main" /\ pc = "loop" /\ player = "O"
    /\ exc' = "ValueError"
    /\ pc' = "crashed"
    /\ UNCHANGED <<mode, board, player, opp, out, disabled, arg, ret>>

\* main, lines 139-143: the human's last cell is filled for them
MainAutofill ==
    /\ mode = "main" /\ pc = "autofill"
    /\ out' = "It will be a draw after your move!"
    /\ board' = place(board, avail_moves(board)[1], "O")
    /\ pc' = "done"
    /\ UNCHANGED <<mode, player, opp, exc, disabled, arg, ret>>

HandleClickAnyTurn(index) ==
    /\ mode = "interactive" /\ pc = "idle"
    /\ IF board[index] # "_"
       THEN UNCHANGED vars
       ELSE /\ board' = place(board, index, "O")
            /\ player' = next_turn(player, opp)[1]
            /\ opp' = next_turn(player, opp)[2]
            /\ IF avail_moves(place(board, index, "O")) = <<>>
               THEN out' = "It's a draw!" /\ disabled' = TRUE /\ pc' = "idle"
               ELSE out' = out /\ disabled' = disabled /\ pc' = "ai_move"
            /\ UNCHANGED <<mode, exc, arg, ret>>

HandleClickAnyCell(index) ==
    /\ mode = "interactive" /\ pc = "idle"
    /\ IF player # "O"
       THEN UNCHANGED vars
       ELSE /\ board' = place(board, index, "O")
            /\ player' = next_turn(player, opp)[1]
            /\ opp' = next_turn(player, opp)[2]
            /\ IF avail_moves(place(board, index, "O")) = <<>>
               THEN out' = "It's a draw!" /\ disabled' = TRUE /\ pc' = "idle"
               ELSE out' = out /\ disabled' = disabled /\ pc' = "ai_move"
            /\ UNCHANGED <<mode, exc, arg, ret>>

\* handle_click(btn) up to the call of ai_move()
HandleClick(index) ==
    /\ mode = "interactive" /\ pc = "idle"
    /\ IF player # "O" \/ board[index] # "_"
       THEN UNCHANGED vars
       ELSE /\ board' = place(board, index, "O")
            /\ player' = next_turn(player, opp)[1]
            /\ opp' = next_turn(player, opp)[2]
            /\ IF avail_moves(place(board, index, "O")) = <<>>
               THEN out' = "It's a draw!" /\ disabled' = TRUE /\ pc' = "idle"
               ELSE out' = out /\ disabled' = disabled /\ pc' = "ai_move"
            /\ UNCHANGED <<mode, exc, arg, ret>>

\* ai_move, lines 296-325: after the AI's mark is placed
AiMoveEnd(b) ==
    /\ board' = b
    /\ player' = next_turn(player, opp)[1]
    /\ opp' = next_turn(player, opp)[2]
    /\ IF Len(avail_moves(b)) = 1
       THEN pc' = "autofill" /\ out' = out /\ disabled' = disabled
       ELSE IF avail_moves(b) = <<>>
            THEN pc' = "idle" /\ out' = "It's a draw!" /\ disabled' = TRUE
            ELSE pc' = "idle" /\ out' = out /\ disabled' = disabled
    /\ UNCHANGED <<mode, exc, arg, ret>>

AiMove ==
    /\ mode = "interactive" /\ pc = "ai_move"
    /\ IF check_player_win(board, "X") # None
       THEN /\ board' = place(board, check_player_win(board, "X")[1], "X")
            /\ out' = "AI wins!"
            /\ disabled' = TRUE
            /\ pc' = "idle"
            /\ UNCHANGED <<mode, player, opp, exc, arg, ret>>
       ELSE IF ai_choice(board) = NoneIndex
            THEN /\ exc' = "TypeError"
                 /\ pc' = "crashed"
                 /\ UNCHANGED <<mode, board, player, opp, out, disabled, arg, ret>>
            ELSE AiMoveEnd(place(board, ai_choice(board), "X"))

InteractiveAutofillOpp ==
    /\ mode = "interactive" /\ pc = "autofill"
    /\ board' = place(board, avail_moves(board)[1], opp)
    /\ out' = (IF check_player_win(place(board, avail_moves(board)[1], opp), opp) # None
               THEN "You win!!" ELSE "It will be a draw!")
    /\ disabled' = TRUE
    /\ pc' = "idle"
    /\ UNCHANGED <<mode, player, opp, exc, arg, ret>>

\* ai_move, lines 302-315: the last empty cell is filled with the side to move
InteractiveAutofill ==
    /\ mode = "interactive" /\ pc = "autofill"
    /\ board' = place(board, avail_moves(board)[1], player)
    /\ out' = (IF check_player_win(place(board, avail_moves(board)[1], player), player) # None
               THEN "You win!!" ELSE "It will be a draw!")
    /\ disabled' = TRUE
    /\ pc' = "idle"
    /\ UNCHANGED <<mode, player, opp, exc, arg, ret>>

Next ==
    \/ \E first \in {"n", "Y", ""} : ChooseFirst(first)
    \/ MainAiTurn
    \/ \E x \in 0..9, y \in 0..9 : MainHumanInput(x, y)
    \/ MainHumanInputMalformed
    \/ MainAutofill
    \/ \E index \in 0..8 : HandleClick(index)
    \/ AiMove
    \/ InteractiveAutofill

Spec == Init /\ [][Next]_vars

\* the human answers the first question, or marks an empty cell
HumanLegalMove ==
    \/ \E first \in {"n", "Y", ""} : ChooseFirst(first)
    \/ \E x \in 0..2, y \in 0..2 : MainHumanInput(x, y) /\ board' # board
    \/ \E index \in 0..8 : HandleClick(index) /\ board' # board

\* The program's own steps run once they are due (main's loop, Tk's call of
\* ai_move from handle_click), and a human who is asked keeps answering
\* until an answer is legal.
SpecLive ==
    /\ Spec
    /\ WF_vars(MainAiTurn)
    /\ WF_vars(MainAutofill)
    /\ WF_vars(AiMove)
    /\ WF_vars(InteractiveAutofill)
    /\ WF_vars(HumanLegalMove)

(***************************************************************************)
(* Calls of the functions on their own: check_player_win on every board,   *)
(* minimax on every board and on the positions legal play reaches, and     *)
(* the lookups of the two magic tables.                                    *)
(***************************************************************************)
InitCall ==
    /\ pc = "call"
    /\ out = ""
    /\ exc = ""
    /\ disabled = FALSE
    /\ ret = None

InitOracle ==
    /\ mode = "oracle"
    /\ board \in Boards
    /\ player \in {"X", "O"}
    /\ opp = Other(player)
    /\ arg = <<>>
    /\ InitCall

CallCheckPlayerWin ==
    /\ mode = "oracle" /\ pc = "call"
    /\ ret' = check_player_win(board, player)
    /\ pc' = "returned"
    /\ UNCHANGED <<mode, board, player, opp, out, exc, disabled, arg>>

NextOracle == CallCheckPlayerWin

SpecOracle == InitOracle /\ [][NextOracle]_vars

InitPlay ==
    /\ mode = "search_play"
    /\ board = EmptyBoard
    /\ player \in {"X", "O"}
    /\ opp = Other(player)
    /\ arg = <<>>
    /\ InitCall

InitAny ==
    /\ mode = "search_any"
    /\ board \in Boards
    /\ player \in {"X", "O"}
    /\ opp = Other(player)
    /\ arg = <<>>
    /\ InitCall

\* one legal move of the side to move, while nobody has three in a row
PlayMove(index) ==
    /\ mode = "search_play" /\ pc = "call"
    /\ ~Has3(board, "X") /\ ~Has3(board, "O")
    /\ board[index] = "_"
    /\ board' = place(board, index, player)
    /\ player' = next_turn(player, opp)[1]
    /\ opp' = next_turn(player, opp)[2]
    /\ UNCHANGED <<mode, pc, out, exc, disabled, arg, ret>>

CallMinimax ==
    /\ mode \in {"search_play", "search_any"} /\ pc = "call"
    /\ ret' = minimax(board, player, opp)
    /\ pc' = "returned"
    /\ UNCHANGED <<mode, board, player, opp, out, exc, disabled, arg>>

NextSearch ==
    \/ \E index \in 0..8 : PlayMove(index)
    \/ CallMinimax

SpecPlay == InitPlay /\ [][NextSearch]_vars

InitSearch == InitPlay \/ InitAny

SpecSearch == InitSearch /\ [][NextSearch]_vars

dict_get(d, k) == IF k \in DOMAIN d THEN d[k] ELSE KeyError

InitMagic ==
    /\ mode = "magic"
    /\ board = EmptyBoard
    /\ player = ""
    /\ opp = ""
    /\ arg \in {<<"sum", a, b, c>> : a, b, c \in 0..8}
               \cup {<<"index", i>> : i \in 0..8}
               \cup {<<"value", v>> : v \in 1..9}
    /\ InitCall

SumOfCells ==
    /\ mode = "magic" /\ pc = "call" /\ arg[1] = "sum"
    /\ ret' = <<magic[arg[2]] + magic[arg[3]] + magic[arg[4]]>>
    /\ pc' = "returned"
    /\ UNCHANGED <<mode, board, player, opp, out, exc, disabled, arg>>

\* magic_[magic[i]]
IndexRoundTrip ==
    /\ mode = "magic" /\ pc = "call" /\ arg[1] = "index"
    /\ ret' = <<dict_get(magic_, magic[arg[2]])>>
    /\ pc' = "returned"
    /\ UNCHANGED <<mode, board, player, opp, out, exc, disabled, arg>>

\* magic[magic_[v]]
ValueRoundTrip ==
    /\ mode = "magic" /\ pc = "call" /\ arg[1] = "value"
    /\ ret' = <<IF arg[2] \in DOMAIN magic_ THEN magic[magic_[arg[2]]] ELSE KeyError>>
    /\ pc' = "returned"
    /\ UNCHANGED <<mode, board, player, opp, out, exc, disabled, arg>>

NextMagic == SumOfCells \/ IndexRoundTrip \/ ValueRoundTrip

SpecMagic == InitMagic /\ [][NextMagic]_vars

\* searches are followed through the list objects on boards with at most
\* this many empty cells
MaxFrameEmpties == 6

InitFrame ==
    /\ mode = "frame"
    /\ player \in {"X", "O"}
    /\ opp = Other(player)
    /\ board \in {b \in Boards : /\ Count(b, "_") <= MaxFrameEmpties
                                 /\ Count(b, opp) - Count(b, player) \in {0, 1}}
    /\ arg = <<>>
    /\ InitCall

Returns(what, r) ==
    /\ ret' = r[1]
    /\ board' = r[2]
    /\ arg' = <<what, board, r[3]>>
    /\ pc' = "returned"
    /\ UNCHANGED <<mode, player, opp, out, exc, disabled>>

RunMinimax ==
    /\ mode = "frame" /\ pc = "call"
    /\ Returns("minimax", minimax_run(board, player, opp))

RunCheckPlayerWin ==
    /\ mode = "frame" /\ pc = "call"
    /\ Returns("check_player_win", check_player_win_run(board, player))

NextFrame == RunMinimax \/ RunCheckPlayerWin

SpecFrame == InitFrame /\ [][NextFrame]_vars

(***************************************************************************)
(* Properties                                                              *)
(***************************************************************************)
GameOver == out \in {"AI wins!", "It's a draw!", "It will be a draw after your move!",
                     "It will be a draw!", "You win!!"}

Undecided(board_) == ~Has3(board_, "X") /\ ~Has3(board_, "O")

Returned == pc = "returned"

\* C1: in the game loops (main and play_interactive, either side moving
\* first, every legal human move) no reachable board holds three O on a line.
C1_AiNeverLoses == ~Has3(board, "O")

\* a finished game in which the human had two on a line and the AI took the third
C1_Witness ==
    /\ GameOver
    /\ \E l \in Lines : \E c \in l : board[c] = "X" /\ \A i \in l \ {c} : board[i] = "O"

\* C2: minimax on the empty board with X to move returns score 0.
C2_EmptyBoardScoreZero ==
    (Returned /\ board = EmptyBoard /\ player = "X" /\ opp = "O") => ret[2] = 0

C2_Witness ==
    Returned /\ board = EmptyBoard /\ player = "X" /\ opp = "O" /\ ret[1] \in 0..8

\* C3: on every undecided position reached by alternating legal play, the score
\* minimax returns for the side to move is the game value of the position as a
\* minimax over the 8 lines computes it.
C3_ScoreIsGameValue ==
    (Returned /\ Undecided(board)) => ret[2] = game_value(board, player)

\* a forced win that is not an immediate one, found by the search
C3_Witness ==
    /\ Returned /\ Undecided(board)
    /\ player = "X" /\ ret[2] = 1
    /\ ~Threat(board, "X")

\* the score minimax gives the position after player marks cell i
ChildScore(board_, player_, i) ==
    minimax(place(board_, i, player_), Other(player_), player_)[2]

ExtremalScore(board_, player_) ==
    best_of({ChildScore(board_, player_, i) : i \in EmptyCells(board_)}, player_)

TiedCells(board_, player_) ==
    {i \in EmptyCells(board_) :
        ChildScore(board_, player_, i) = ExtremalScore(board_, player_)}

\* minimax reached its move selection, and more than one cell has the extremal score
SelectsAmongTies ==
    /\ Returned
    /\ ~Threat(board, player)
    /\ EmptyCells(board) # {}
    /\ Cardinality(TiedCells(board, player)) > 1

\* C4 as stated: among the cells of extremal score minimax returns the lowest
\* index, for X as well as for O.
C4_LowestIndexForBoth ==
    SelectsAmongTies => ret[1] = SetMin(TiedCells(board, player))

\* C4: among the cells of extremal score minimax returns the lowest index when
\* O is to move and the highest index when X is to move.
C4_TieBreak ==
    SelectsAmongTies =>
        ret[1] = (IF player = "X" THEN SetMax(TiedCells(board, player))
                  ELSE SetMin(TiedCells(board, player)))

C4_Witness ==
    /\ SelectsAmongTies
    /\ player = "X"
    /\ ret[1] = SetMax(TiedCells(board, player))
    /\ ret[1] # SetMin(TiedCells(board, player))

\* C5: check_player_win returns a result exactly when the player has two marks
\* on a line whose third cell is empty, and None with fewer than 2 marks.
C5_ResultIffThreat ==
    Returned =>
        /\ (ret # None) <=> Threat(board, player)
        /\ Count(board, player) < 2 => ret = None

C5_Witness == Returned /\ ret # None /\ Count(board, player) = 2 /\ Count(board, "_") = 1

\* the pairs of the player's marks on a line whose third cell is empty
OpenPairs(board_, player_) ==
    {pr \in (0..8) \X (0..8) :
        /\ pr[1] < pr[2]
        /\ board_[pr[1]] = player_ /\ board_[pr[2]] = player_
        /\ \E l \in Lines : \E c \in l : l = {pr[1], pr[2], c} /\ board_[c] = "_"}

LexLeq(p, q) == p[1] < q[1] \/ (p[1] = q[1] /\ p[2] <= q[2])

FirstOpenPair(board_, player_) ==
    CHOOSE pr \in OpenPairs(board_, player_) :
        \A q \in OpenPairs(board_, player_) : LexLeq(pr, q)

Completing(pr) == CHOOSE c \in 0..8 : {pr[1], pr[2], c} \in Lines

ExampleBoard ==
    [i \in 0..8 |-> IF i \in {0, 1} THEN "X" ELSE IF i \in {3, 4} THEN "O" ELSE "_"]

\* C6: a result of check_player_win is the empty cell completing the line of the
\* lexicographically first pair of the player's marks whose completing cell is
\* empty, with score +1 for X and -1 for O; on [X,X,_,O,O,_,_,_,_] with X it
\* is (2, +1).
C6_FirstPairAndScore ==
    /\ (Returned /\ ret # None) =>
           ret = <<Completing(FirstOpenPair(board, player)),
                   IF player = "X" THEN 1 ELSE 0 - 1>>
    /\ (Returned /\ board = ExampleBoard /\ player = "X") => ret = <<2, 1>>

\* two open pairs completed by different cells: the order of the pairs decides
C6_Witness ==
    /\ Returned /\ ret # None
    /\ \E q \in OpenPairs(board, player) : Completing(q) # ret[1]

\* C7: three distinct cells have magic values summing to 15 exactly when they
\* form one of the 8 lines.
C7_SumFifteenIffLine ==
    (Returned /\ arg[1] = "sum" /\ Cardinality({arg[2], arg[3], arg[4]}) = 3) =>
        ((ret[1] = 15) <=> ({arg[2], arg[3], arg[4]} \in Lines))

C7_Witness ==
    /\ Returned /\ arg[1] = "sum" /\ ret[1] = 15
    /\ {arg[2], arg[3], arg[4]} = {2, 4, 6}

\* C8: magic_[magic[i]] = i for every cell i, magic maps the 9 cells one-to-one
\* onto 1..9, and magic[magic_[v]] = v for every v in 1..9.
C8_RoundTrip ==
    /\ (Returned /\ arg[1] \in {"index", "value"}) => ret[1] = arg[2]
    /\ {magic[i] : i \in 0..8} = 1..9

C8_Witness == Returned /\ arg = <<"index", 7>> /\ ret = <<7>>

\* C9: the index minimax returns is None exactly when the board has no empty
\* cell; otherwise it is an empty cell of the board, and on an undecided position
\* reached by legal play the position after the player marks it has the
\* returned score as its game value.
C9_ReturnedIndex ==
    Returned =>
        /\ (ret[1] = NoneIndex) <=> (EmptyCells(board) = {})
        /\ ret[1] # NoneIndex => ret[1] \in EmptyCells(board)
        /\ (mode = "search_play" /\ Undecided(board) /\ ret[1] # NoneIndex) =>
               game_value(place(board, ret[1], player), opp) = ret[2]

C9_Witness ==
    /\ Returned /\ mode = "search_play" /\ Undecided(board)
    /\ ret[1] \in EmptyCells(board)
    /\ ~Threat(board, player)
    /\ ret[2] = 0 - 1

\* C10 as stated: the board always holds as many X as O, or one more X than O.
C10_XNeverBehind ==
    Count(board, "X") - Count(board, "O") \in {0, 1}

\* C10: the numbers of X and of O never differ by more than one, and the side
\* about to move never has more marks than the other side.
C10_MarkCounts ==
    /\ Count(board, "X") - Count(board, "O") \in {0 - 1, 0, 1}
    /\ (pc \in {"loop", "idle", "ai_move", "autofill"} /\ ~GameOver) =>
           Count(board, opp) - Count(board, player) \in {0, 1}

\* the human moved first and the AI has answered every move but the last
C10_Witness ==
    /\ pc \in {"loop", "ai_move"}
    /\ player = "X"
    /\ Count(board, "O") = 4 /\ Count(board, "X") = 3


\* C11: a human move aimed at an occupied cell leaves the board and the player
\* to move unchanged: main prints its message and prompts again, the
\* interactive game ignores the click.
C11_OccupiedCellRejected ==
    [][/\ \A x \in 0..9, y \in 0..9 :
             (MainHumanInput(x, y) /\ 3 * x + y <= 8 /\ board[3 * x + y] # "_") =>
                 /\ UNCHANGED <<board, player, opp, pc, exc>>
                 /\ out' = "That spot is already taken! Try again."
       /\ \A index \in 0..8 :
             (HandleClick(index) /\ board[index] # "_") =>
                 UNCHANGED <<board, player, opp, pc, out, exc, disabled>>]_vars

\* main has just refused an occupied cell and waits for the next answer
C11_Witness ==
    /\ mode = "main" /\ pc = "loop" /\ player = "O"
    /\ out = "That spot is already taken! Try again."
    /\ Count(board, "_") < 9

\* C12 as stated: a human move whose index 3*x + y is outside 0..8 leaves the
\* board unchanged, the game goes on and the human is prompted again.
C12_OutOfRangeRecoverable ==
    [][\A x \in 0..9, y \in 0..9 :
           (MainHumanInput(x, y) /\ 3 * x + y > 8) =>
               UNCHANGED <<board, player, opp, pc, exc>>]_vars


\* C13: minimax and check_player_win leave the board they were given as it
\* was: every hypothetical move went onto a copy that differs from the board
\* given in just the cell marked, and the call returns what the search returns.
C13_BoardUntouched ==
    (mode = "frame" /\ pc = "returned") =>
        /\ board = arg[2]
        /\ arg[3]
        /\ arg[1] = "minimax" => ret = minimax(arg[2], player, opp)
        /\ arg[1] = "check_player_win" => ret = check_player_win(arg[2], player)

\* a search that went through its loop, three levels deep or more
C13_Witness ==
    /\ mode = "frame" /\ pc = "returned" /\ arg[1] = "minimax"
    /\ check_player_win(arg[2], player) = None
    /\ Count(arg[2], "_") >= 3
    /\ ret[1] \in EmptyCells(arg[2])


\* a side is due to mark a cell
AskedToMove ==
    \/ mode = "main" /\ pc \in {"loop", "autofill"}
    \/ mode = "interactive" /\ pc \in {"ai_move", "autofill"}
    \/ mode = "interactive" /\ pc = "idle" /\ ~GameOver

\* C14: with a human who makes a legal move on each of their turns, every
\* game reaches a declared outcome; no side is ever asked to move on a full
\* board, so the search is never called with nothing to choose from, and the
\* board never holds more than 9 marks.
C14_Terminates ==
    /\ [](AskedToMove => EmptyCells(board) # {})
    /\ [](exc # "TypeError")
    /\ [](Count(board, "X") + Count(board, "O") <= 9)
    /\ <>(GameOver \/ exc \in {"IndexError", "ValueError"})

\* a game that ran to the ninth mark and was declared drawn
C14_Witness ==
    /\ GameOver /\ exc = ""
    /\ Count(board, "X") + Count(board, "O") = 9
    /\ out = "It's a draw!"


\* C15: every step that changes the board writes the mark of the side to
\* move into one cell that was empty and changes no other cell; unless that
\* step ends the game the turn then passes to the other side, and no other
\* step changes the side to move once the first mover is chosen, and no mark
\* follows the one that ended the game, so the marks alternate, the
\* automatically filled last cell included.
C15_OneMarkAlternating ==
    [][/\ board' # board =>
              /\ \E i \in EmptyCells(board) : board' = place(board, i, player)
              /\ player \in {"X", "O"}
              /\ \/ player' = opp /\ opp' = player /\ player' # player
                 \/ GameOver' /\ player' = player /\ opp' = opp
       /\ (board' = board /\ pc # "ask_first") => (player' = player /\ opp' = opp)
       /\ GameOver => board' = board
       /\ pc = "ask_first" => (board' = EmptyBoard /\ player' \in {"X", "O"}
                                  /\ opp' = Other(player'))]_vars

\* the human's last cell was filled for them after the AI's fourth mark
C15_Witness ==
    /\ out \in {"It will be a draw!", "It will be a draw after your move!"}
    /\ Count(board, "O") = 5 /\ Count(board, "X") = 4
    /\ player = "O"


\* C16: the announced outcome matches the board it is announced on: with
\* "AI wins!" the board holds three X in a row and no three O in a row; with
\* any of the draw messages the board is full and neither side has three in
\* a row.
C16_OutcomeMatchesBoard ==
    /\ out = "AI wins!" => (Has3(board, "X") /\ ~Has3(board, "O"))
    /\ out \in {"It's a draw!", "It will be a draw after your move!", "It will be a draw!"} =>
           (EmptyCells(board) = {} /\ Undecided(board))

\* an AI win announced while cells are still empty
C16_Witness ==
    /\ out = "AI wins!"
    /\ Has3(board, "X")
    /\ EmptyCells(board) # {}


\* the AI is to move, has no winning completion, and check_player_win finds
\* one for O
AiMustBlock ==
    /\ \/ mode = "main" /\ pc = "loop" /\ player = "X"
       \/ mode = "interactive" /\ pc = "ai_move"
    /\ check_player_win(board, "X") = None
    /\ check_player_win(board, "O") # None

\* C17: whenever the AI takes the short-circuit to O's completing cell, the
\* position after marking that cell with X has the game value that
\* minimax(board, "X", "O") returns as its score, and the cell marked is the
\* one check_player_win(board, "O") returned.
C17_BlockAsGoodAsSearch ==
    AiMustBlock =>
        /\ ai_choice(board) = check_player_win(board, "O")[1]
        /\ game_value(place(board, ai_choice(board), "X"), "O") = minimax(board, "X", "O")[2]

\* the AI must block early in a game that is still level
C17_Witness ==
    /\ AiMustBlock
    /\ Count(board, "O") = 2
    /\ Threat(board, "O")
    /\ minimax(board, "X", "O")[2] = 0


\* C18: in the interactive game, once an outcome is announced, the program
\* waits for clicks, the guard of handle_click turns every cell away (it is
\* not O's turn, or the cell is marked), and no step changes the board or
\* the side to move; the buttons being disabled plays no part.
C18_ClicksAfterGameOver ==
    /\ []((mode = "interactive" /\ GameOver) =>
              /\ pc = "idle"
              /\ \A index \in 0..8 : ENABLED HandleClick(index)
              /\ \A index \in 0..8 : player # "O" \/ board[index] # "_")
    /\ [][(mode = "interactive" /\ GameOver) =>
              /\ \A index \in 0..8 : HandleClick(index) => UNCHANGED vars
              /\ UNCHANGED <<board, player, opp>>]_vars

\* the AI has won with cells still empty: only the test of the side to move
\* keeps a click from marking one
C18_Witness ==
    /\ mode = "interactive" /\ pc = "idle"
    /\ out = "AI wins!"
    /\ player = "X"
    /\ EmptyCells(board) # {}

====
